---- MODULE Spec2Model ----
(***************************************************************************)
(* Escrow lifecycle of the Bitcoin smart-escrow dApp.                      *)
(*                                                                         *)
(* Client side: the zustand escrow store (addEscrow / updateEscrow /       *)
(* removeEscrow), the detail page (refreshEscrowStatus polls, handleUnlock,*)
(* the FundEscrowForm and PollingDetector callbacks), the useEscrowOps     *)
(* hook (createEscrow, fundEscrow, detectFunding, unlockEscrow, canUnlock) *)
(* and the UnlockEscrowForm that drives unlockEscrow.                      *)
(* Server side: the in-memory escrowDatabase of GET /api/escrow/status.    *)
(*                                                                         *)
(* Every await of the source is a separate step, so that asynchronous      *)
(* handlers interleave as they do in the browser's event loop.             *)
(***************************************************************************)
EXTENDS Integers, FiniteSets, Sequences, TLC

\* ------------------------------------------------------------------ bounds
MaxHeight == 2
MaxUnlockTime == 1

\* ------------------------------------------------------------ value spaces
EscrowId == "e1"
Undef == "undefined"
NoTime == -1
HeightFail == -1
NowSec == 1
NowMs == 1000
NoError == "null"

Heights == 0..MaxHeight
FundTxids == {"f1", "f2"}
RedeemTxids == {"r1"}
Pollers == {"p1", "p2"}
Unlockers == {"page", "form"}

\* EscrowStatus, in lifecycle order
Rank(s) ==
  CASE s = "pending" -> 0
    [] s = "active" -> 1
    [] s = "ready-to-unlock" -> 2
    [] s = "released" -> 3
    [] OTHER -> -1

\* JS truthiness of an optional string / optional number field
Truthy(s) == s \notin {"", Undef}
TruthyNum(n) == n \notin {0, NoTime}

VARIABLES
  escrows,          \* useEscrowStore.escrows : id -> EscrowConfig
  view,             \* detail page: useState(getEscrow(escrowId))
  walletConnected,  \* wallet.isConnected
  pcP, cur,         \* refreshEscrowStatus activations: position, record read
  pcF,              \* the sendBitcoin in flight (at) and whether the create
                    \* page shows its FundEscrowForm (fundStep)
  pcU, error,       \* handleUnlock (page) and unlockEscrow (form)
  db,               \* escrowDatabase of the status route
  facts,            \* chain answers obtained by the last status-route GET
  built,            \* the last call of the PSBT builder / script compiler:
                    \* its arguments and what it returned
  poller            \* one useEscrowPoller instance and its interval timers

vars == <<escrows, view, walletConnected, pcP, cur, pcF, pcU, error, db, facts, built, poller>>

\* --------------------------------------------------------------- the store
\* {...undefined}: a record with no field set
Blank ==
  [id |-> Undef, status |-> Undef, fundingTxid |-> Undef, redeemTxid |-> Undef,
   unlockedAt |-> 0, unlockType |-> Undef, unlockTime |-> NoTime,
   buyerSigned |-> FALSE, sellerSigned |-> FALSE]

\* {...base, ...updates}
Spread(base, updates) ==
  [f \in DOMAIN base |-> IF f \in DOMAIN updates THEN updates[f] ELSE base[f]]

getEscrow(es, id) == IF id \in DOMAIN es THEN es[id] ELSE Blank

hasEscrow(es, id) == id \in DOMAIN es

addEscrow(es, escrow) ==
  [i \in DOMAIN es \cup {escrow.id} |-> IF i = escrow.id THEN escrow ELSE es[i]]

updateEscrow(es, id, updates) ==
  [i \in DOMAIN es \cup {id} |->
     IF i = id THEN Spread(getEscrow(es, id), updates) ELSE es[i]]

removeEscrow(es, id) == [i \in DOMAIN es \ {id} |-> es[i]]

\* The detail page keeps its own copy of the record (useState); the guards of
\* the page read status and fundingTxid of that copy.
NoView == [mounted |-> FALSE, status |-> Undef, fundingTxid |-> Undef]

ViewOf(rec) == [mounted |-> TRUE, status |-> rec.status, fundingTxid |-> rec.fundingTxid]

\* setEscrow((prev) => (prev ? { ...prev, ...updates } : null))
setEscrow(v, updates) ==
  IF v.mounted
    THEN [f \in DOMAIN v |-> IF f \in DOMAIN updates THEN updates[f] ELSE v[f]]
    ELSE v

\* the fields of currentEscrow that refreshEscrowStatus reads (lines 70-85)
NoRead ==
  [status |-> Undef, fundingTxid |-> Undef, unlockType |-> Undef,
   unlockTime |-> NoTime, buyerSigned |-> FALSE, sellerSigned |-> FALSE]

ReadOf(rec) == [f \in DOMAIN NoRead |-> rec[f]]

\* ------------------------------------------------------------ chain client
\* MempoolClient.isTransactionConfirmed: the outcome of getTransaction is
\* "confirmed", "unconfirmed" or "fail" (a thrown error is caught -> false)
isTransactionConfirmed(txOutcome) == txOutcome = "confirmed"

TxOutcomes == {"confirmed", "unconfirmed", "fail"}

\* detector.checkEscrowStatus: utxoQ is the outcome of getUTXOs + find
\* ("fail", "none", "found"), utxoConfirmed / utxoHeight the status of the
\* matching UTXO, tipQ the answer of getBlockHeight (HeightFail when it throws)
checkEscrowStatus(utxoQ, utxoConfirmed, utxoHeight, tipQ) ==
  IF utxoQ # "found"
    THEN [isFunded |-> FALSE, confirmations |-> 0, isSpendable |-> FALSE]
    ELSE LET confirmations ==
               IF utxoConfirmed
                 THEN IF tipQ = HeightFail THEN 1 ELSE tipQ - utxoHeight + 1
                 ELSE 0
         IN [isFunded |-> TRUE, confirmations |-> confirmations,
             isSpendable |-> utxoConfirmed /\ confirmations >= 1]

\* ------------------------------------------------- status poll (the page)
\* mutation of pageReadyToUnlock: one approval is taken for two
pageReadyToUnlockEitherSigned(rec, h) ==
  IF rec.unlockType = "timelock" /\ TruthyNum(rec.unlockTime)
    THEN h >= rec.unlockTime
    ELSE IF rec.unlockType = "dual-approval"
      THEN rec.buyerSigned \/ rec.sellerSigned
      ELSE FALSE

\* lines 79-86 of refreshEscrowStatus: the unlock condition, from the record
\* read at the start of the poll and the tip height obtained
pageReadyToUnlock(rec, h) ==
  IF rec.unlockType = "timelock" /\ TruthyNum(rec.unlockTime)
    THEN h >= rec.unlockTime
    ELSE IF rec.unlockType = "dual-approval"
      THEN rec.buyerSigned /\ rec.sellerSigned
      ELSE FALSE

\* mutation of pageChecksFunding: the status of the record is not looked at
pageChecksFundingAnyStatus(rec) == Truthy(rec.fundingTxid)

\* does the poll go on to await isTransactionConfirmed (line 70)
pageChecksFunding(rec) == Truthy(rec.fundingTxid) /\ rec.status = "pending"

\* the write guarded by line 79 and line 88
pageReadyWrite(rec, h) == rec.status = "active" /\ pageReadyToUnlock(rec, h)

\* the two store updates a poll can make (lines 73 and 89)
pollActiveUpdate == [status |-> "active"]
pollReadyUpdate == [status |-> "ready-to-unlock"]

\* ------------------------------------------------------------------- Init
\* no builder call made yet
NoCall == [op |-> "none"]

\* useEscrowPoller not mounted: no state, no ref, no timer.  ref 0 is the null
\* ref, deps the dependency values the effect last ran with
NoDeps == [ran |-> FALSE, enabled |-> FALSE, isPolling |-> FALSE]
NoPoller ==
  [mounted |-> FALSE, enabled |-> FALSE, isPolling |-> FALSE, ref |-> 0,
   timers |-> {}, checkCount |-> 0, deps |-> NoDeps]

\* no sendBitcoin in flight, the create page not at its step 'fund'
NoFunding == [at |-> "idle", fundStep |-> FALSE]

\* what the last completed poll obtained: which poll it was, the status it
\* found, the answers of the chain and whether a query it made failed
NoFacts == [op |-> "none", before |-> Undef, tx |-> "fail", tip |-> HeightFail, failed |-> FALSE]

Init ==
  /\ escrows = << >>
  /\ view = NoView
  /\ walletConnected = FALSE
  /\ pcP = [p \in Pollers |-> "idle"]
  /\ cur = [p \in Pollers |-> NoRead]
  /\ pcF = NoFunding
  /\ pcU = [u \in Unlockers |-> "idle"]
  /\ error = [u \in Unlockers |-> NoError]
  /\ db = << >>
  /\ facts = NoFacts
  /\ built = NoCall
  /\ poller = NoPoller

serverVars == <<db, facts>>
pollVars == <<pcP, cur>>
unlockVars == <<pcU, error>>

\* ------------------------------------------------------ creation, wallet
\* useEscrowOps.createEscrow: addEscrow of a pending record with no funding
\* txid; the id is generated once.  The create forms refuse to run without a
\* connected wallet (wallet.publicKey).
newEscrow(t, ut) ==
  [Blank EXCEPT !.id = EscrowId, !.fundingTxid = "", !.status = "pending",
                !.unlockType = t, !.unlockTime = ut]

CreateEscrow(t, ut) ==
  /\ walletConnected
  /\ ~hasEscrow(escrows, EscrowId)
  /\ escrows' = addEscrow(escrows, newEscrow(t, ut))
  /\ UNCHANGED <<view, walletConnected, pollVars, pcF, unlockVars, serverVars, built, poller>>

\* CreateEscrowForm.handleGenerateScript of the create page, lines 73-116:
\* addEscrow of the same pending record, then await sendBitcoin
GenerateScript(t, ut) ==
  /\ walletConnected
  /\ ~hasEscrow(escrows, EscrowId)
  /\ pcF.at = "idle"
  /\ escrows' = addEscrow(escrows, newEscrow(t, ut))
  /\ pcF' = [at |-> "generate", fundStep |-> FALSE]
  /\ UNCHANGED <<view, walletConnected, pollVars, unlockVars, serverVars, built, poller>>

Connect ==
  /\ ~walletConnected
  /\ walletConnected' = TRUE
  /\ UNCHANGED <<escrows, view, pollVars, pcF, unlockVars, serverVars, built, poller>>

\* useState(getEscrow(escrowId)); a missing escrow redirects to the dashboard
MountPage ==
  /\ ~view.mounted
  /\ hasEscrow(escrows, EscrowId)
  /\ view' = ViewOf(getEscrow(escrows, EscrowId))
  /\ UNCHANGED <<escrows, walletConnected, pollVars, pcF, unlockVars, serverVars, built, poller>>

\* ------------------------------------------------- refreshEscrowStatus
\* line 61-66: read the record, then await getBlockHeight
PollStart(p) ==
  /\ view.mounted
  /\ pcP[p] = "idle"
  /\ hasEscrow(escrows, EscrowId)
  /\ cur' = [cur EXCEPT ![p] = ReadOf(getEscrow(escrows, EscrowId))]
  /\ pcP' = [pcP EXCEPT ![p] = "height"]
  /\ UNCHANGED <<escrows, view, walletConnected, pcF, unlockVars, serverVars, built, poller>>

\* getBlockHeight throws: the catch of line 93 ends the poll
PollHeightFail(p) ==
  /\ pcP[p] = "height"
  /\ pcP' = [pcP EXCEPT ![p] = "idle"]
  /\ cur' = [cur EXCEPT ![p] = NoRead]
  /\ UNCHANGED <<escrows, view, walletConnected, pcF, unlockVars, serverVars, built, poller>>

\* getBlockHeight answers h: either go on to await isTransactionConfirmed,
\* or run the unlock-condition block (lines 79-92) and finish
PollHeight(p, h) ==
  /\ pcP[p] = "height"
  /\ IF pageChecksFunding(cur[p])
       THEN /\ pcP' = [pcP EXCEPT ![p] = "confirm"]
            /\ UNCHANGED <<escrows, view, cur>>
       ELSE /\ pcP' = [pcP EXCEPT ![p] = "idle"]
            /\ cur' = [cur EXCEPT ![p] = NoRead]
            /\ IF pageReadyWrite(cur[p], h)
                 THEN /\ escrows' = updateEscrow(escrows, EscrowId, pollReadyUpdate)
                      /\ view' = setEscrow(view, pollReadyUpdate)
                 ELSE UNCHANGED <<escrows, view>>
  /\ UNCHANGED <<walletConnected, pcF, unlockVars, serverVars, built, poller>>

\* isTransactionConfirmed answers (lines 71-76); the record read was pending,
\* so the block of line 79 is skipped
PollConfirmed(p, txOutcome) ==
  /\ pcP[p] = "confirm"
  /\ pcP' = [pcP EXCEPT ![p] = "idle"]
  /\ cur' = [cur EXCEPT ![p] = NoRead]
  /\ IF isTransactionConfirmed(txOutcome)
       THEN /\ escrows' = updateEscrow(escrows, EscrowId, pollActiveUpdate)
            /\ view' = setEscrow(view, pollActiveUpdate)
       ELSE UNCHANGED <<escrows, view>>
  /\ UNCHANGED <<walletConnected, pcF, unlockVars, serverVars, built, poller>>

\* ------------------------------------------------------------- funding
\* sendBitcoin broadcasts a new transaction: its txid is not the one recorded
sendBitcoinTxid == IF getEscrow(escrows, EscrowId).fundingTxid = "f1" THEN "f2" ELSE "f1"

\* handleGenerateScript, lines 118-135: sendBitcoin resolved, the txid is
\* recorded; onSuccess then takes the create page to its step 'fund'
generateUpdate(txid) == [fundingTxid |-> txid]

GenerateSent(txid) ==
  /\ pcF.at = "generate"
  /\ txid = sendBitcoinTxid
  /\ escrows' = updateEscrow(escrows, EscrowId, generateUpdate(txid))
  /\ pcF' = [at |-> "idle", fundStep |-> TRUE]
  /\ UNCHANGED <<view, walletConnected, pollVars, unlockVars, serverVars, built, poller>>

\* handleGenerateScript, lines 123-126: the send was cancelled or failed;
\* the create page goes to its step 'fund' all the same
GenerateFailed ==
  /\ pcF.at = "generate"
  /\ pcF' = [at |-> "idle", fundStep |-> TRUE]
  /\ UNCHANGED <<escrows, view, walletConnected, pollVars, unlockVars, serverVars, built, poller>>

\* FundEscrowForm.handleFund: rendered by the create page at its step 'fund',
\* until a funding of that form succeeds or the user leaves for the detail
\* page ("create"), and by the detail page while its copy is pending with no
\* funding txid ("page"); then fundEscrow awaits sendBitcoin
FundStart(form) ==
  /\ pcF.at = "idle"
  /\ walletConnected
  /\ hasEscrow(escrows, EscrowId)
  /\ IF form = "page"
       THEN view.mounted /\ view.status = "pending" /\ ~Truthy(view.fundingTxid)
       ELSE ~view.mounted /\ pcF.fundStep
  /\ pcF' = [pcF EXCEPT !.at = form]
  /\ UNCHANGED <<escrows, view, walletConnected, pollVars, unlockVars, serverVars, built, poller>>

\* fundEscrow, lines 106-110
fundUpdate(txid) == [fundingTxid |-> txid, status |-> "pending"]

\* sendBitcoin resolved: fundEscrow writes, then onFunded(txid) runs; the
\* detail page's onFunded (lines 306-309) records the txid again, the create
\* page's (handleFunded) leaves the step 'fund'
FundSent(txid) ==
  /\ pcF.at \in {"create", "page"}
  /\ txid = sendBitcoinTxid
  /\ pcF' = [at |-> "idle", fundStep |-> pcF.fundStep /\ pcF.at # "create"]
  /\ escrows' = updateEscrow(escrows, EscrowId, fundUpdate(txid))
  /\ view' = IF pcF.at = "page" THEN setEscrow(view, [fundingTxid |-> txid]) ELSE view
  /\ UNCHANGED <<walletConnected, pollVars, unlockVars, serverVars, built, poller>>

\* sendBitcoin rejected (user cancelled): nothing is written
FundFailed ==
  /\ pcF.at \in {"create", "page"}
  /\ pcF' = [pcF EXCEPT !.at = "idle"]
  /\ UNCHANGED <<escrows, view, walletConnected, pollVars, unlockVars, serverVars, built, poller>>

\* detectFunding, lines 130-136
detectUpdate(st) == [status |-> IF st.isSpendable THEN "active" ELSE "pending"]

DetectFunding(st) ==
  /\ hasEscrow(escrows, EscrowId)
  /\ st.isFunded
  /\ escrows' = updateEscrow(escrows, EscrowId, detectUpdate(st))
  /\ UNCHANGED <<view, walletConnected, pollVars, pcF, unlockVars, serverVars, built, poller>>

\* the onFunded callback the detail page hands to PollingDetector, which is
\* rendered while the page's copy is pending with a funding txid
OnFunded ==
  /\ view.mounted
  /\ view.status = "pending"
  /\ Truthy(view.fundingTxid)
  /\ escrows' = updateEscrow(escrows, EscrowId, pollActiveUpdate)
  /\ view' = setEscrow(view, pollActiveUpdate)
  /\ UNCHANGED <<walletConnected, pollVars, pcF, unlockVars, serverVars, built, poller>>

\* the signing-coordination step that records an approval
SignApproval(flag) ==
  /\ hasEscrow(escrows, EscrowId)
  /\ getEscrow(escrows, EscrowId).unlockType = "dual-approval"
  /\ ~getEscrow(escrows, EscrowId)[flag]
  /\ escrows' = updateEscrow(escrows, EscrowId, [f \in {flag} |-> TRUE])
  /\ UNCHANGED <<view, walletConnected, pollVars, pcF, unlockVars, serverVars, built, poller>>

\* -------------------------------------------------------------- unlocking
\* useEscrowOps.canUnlock, with tipQ the answer isTimelockExpired gets from
\* getBlockHeight (a failure makes isTimelockExpired false)
isTimelockExpired(unlockBlockHeight, tipQ) ==
  tipQ # HeightFail /\ tipQ >= unlockBlockHeight

canUnlock(rec, tipQ) ==
  IF rec.status # "active"
    THEN FALSE
    ELSE IF rec.unlockType = "timelock"
      THEN isTimelockExpired(IF TruthyNum(rec.unlockTime) THEN rec.unlockTime ELSE 0, tipQ)
      ELSE TRUE

\* mutation of releaseUpdate: the status alone is written
releaseUpdateStatusOnly(u, txid) == [status |-> "released"]

\* the store update of a successful unlock: handleUnlock line 207 (seconds),
\* unlockEscrow lines 236-240 (milliseconds)
releaseUpdate(u, txid) ==
  [status |-> "released", redeemTxid |-> txid,
   unlockedAt |-> IF u = "page" THEN NowSec ELSE NowMs]

\* page: the button of line 392 is rendered while the page's copy is
\* ready-to-unlock and enabled while the wallet is connected and no unlock
\* runs.  form: UnlockEscrowForm enables its button when canUnlock holds.
\* Both then await the UTXO lookup.
unlockOffered(u, tipQ) ==
  IF u = "page"
    THEN view.mounted /\ walletConnected /\ view.status = "ready-to-unlock"
    ELSE hasEscrow(escrows, EscrowId) /\ canUnlock(getEscrow(escrows, EscrowId), tipQ)

UnlockStart(u, tipQ) ==
  /\ pcU[u] = "idle"
  /\ unlockOffered(u, tipQ)
  /\ pcU' = [pcU EXCEPT ![u] = "utxo"]
  /\ error' = [error EXCEPT ![u] = IF u = "page" THEN NoError ELSE @]
  /\ UNCHANGED <<escrows, view, walletConnected, pollVars, pcF, serverVars, built, poller>>

\* page: getUTXOs (line 125), a failure or an empty list is thrown.
\* form: GET /api/escrow/detect (line 261), whose failure the form only logs;
\* on success unlockEscrow is entered: setError(null)
UnlockUtxo(u, r) ==
  /\ pcU[u] = "utxo"
  /\ IF r = "ok"
       THEN /\ pcU' = [pcU EXCEPT ![u] = "rawtx"]
            /\ error' = [error EXCEPT ![u] = NoError]
       ELSE /\ pcU' = [pcU EXCEPT ![u] = "idle"]
            /\ error' = [error EXCEPT ![u] =
                 IF u = "form" THEN @ ELSE "ChainUnavailable"]
  /\ UNCHANGED <<escrows, view, walletConnected, pollVars, pcF, serverVars, built, poller>>

\* page: fetch of /tx/<txid>/hex (line 138); form: getTransactionHex (line 178)
UnlockRawTx(u, r) ==
  /\ pcU[u] = "rawtx"
  /\ IF r = "ok"
       THEN /\ pcU' = [pcU EXCEPT ![u] = "sign"]
            /\ error' = error
       ELSE /\ pcU' = [pcU EXCEPT ![u] = "idle"]
            /\ error' = [error EXCEPT ![u] = "ChainUnavailable"]
  /\ UNCHANGED <<escrows, view, walletConnected, pollVars, pcF, serverVars, built, poller>>

\* mutation of UnlockSign: onCancel resolves instead of rejecting, so a
\* cancelled request goes on to the broadcast
UnlockSignCancelResolves(u, r) ==
  /\ pcU[u] = "sign"
  /\ IF r \in {"ok", "cancelled"}
       THEN /\ pcU' = [pcU EXCEPT ![u] = "broadcast"]
            /\ error' = error
       ELSE /\ pcU' = [pcU EXCEPT ![u] = "idle"]
            /\ error' = [error EXCEPT ![u] = "MissingSignature"]
  /\ UNCHANGED <<escrows, view, walletConnected, pollVars, pcF, serverVars, built, poller>>

\* signPsbt: signed ("ok"), cancelled in the wallet popup, or returned
\* without a signature (finalization throws)
UnlockSign(u, r) ==
  /\ pcU[u] = "sign"
  /\ IF r = "ok"
       THEN /\ pcU' = [pcU EXCEPT ![u] = "broadcast"]
            /\ error' = error
       ELSE /\ pcU' = [pcU EXCEPT ![u] = "idle"]
            /\ error' = [error EXCEPT ![u] =
                 IF r = "cancelled" THEN "UserDeclined"
                 ELSE "MissingSignature"]
  /\ UNCHANGED <<escrows, view, walletConnected, pollVars, pcF, serverVars, built, poller>>

\* mutation of broadcastOk: the answer of the broadcast is not looked at
broadcastOkUnchecked(r) == TRUE

\* broadcastRes.ok / broadcastResponse.ok: r is "ok", "rejected" (a non-OK
\* answer of POST /api/escrow/broadcast) or "thrown" (fetch failed)
broadcastOk(r) == r = "ok"

\* the answer of the broadcast: a success records the release with the txid
\* returned, anything else is thrown before the store is touched
UnlockBroadcast(u, r, txid) ==
  /\ pcU[u] = "broadcast"
  /\ pcU' = [pcU EXCEPT ![u] = "idle"]
  /\ IF broadcastOk(r)
       THEN /\ escrows' = updateEscrow(escrows, EscrowId, releaseUpdate(u, txid))
            /\ view' = IF u = "page" THEN setEscrow(view, [status |-> "released"]) ELSE view
            /\ error' = error
       ELSE /\ error' = [error EXCEPT ![u] = "BroadcastRejected"]
            /\ UNCHANGED <<escrows, view>>
  /\ UNCHANGED <<walletConnected, pollVars, pcF, serverVars, built, poller>>

\* -------------------------------------------------------------------- Next
UtxoOutcomes == {"fail", "none", "found"}
TipAnswers == Heights \cup {HeightFail}
\* the create forms and the escrow service refuse an unlock height below 1
UnlockTimes == 1..MaxUnlockTime
BroadcastAnswers == {"ok", "rejected", "thrown"}

\* every answer checkEscrowStatus can give
DetectResults ==
  {checkEscrowStatus(q, c, uh, tip) :
     q \in UtxoOutcomes, c \in BOOLEAN, uh \in Heights, tip \in TipAnswers}

\* creation, wallet, page mount, funding and the approvals
Setup ==
  \/ \E ut \in UnlockTimes : CreateEscrow("timelock", ut)
  \/ CreateEscrow("dual-approval", NoTime)
  \/ \E ut \in UnlockTimes : GenerateScript("timelock", ut)
  \/ GenerateScript("dual-approval", NoTime)
  \/ \E txid \in FundTxids : GenerateSent(txid)
  \/ GenerateFailed
  \/ Connect
  \/ MountPage
  \/ \E form \in {"create", "page"} : FundStart(form)
  \/ \E txid \in FundTxids : FundSent(txid)
  \/ FundFailed
  \/ \E flag \in {"buyerSigned", "sellerSigned"} : SignApproval(flag)

Poll(p) ==
  \/ PollStart(p)
  \/ PollHeightFail(p)
  \/ \E h \in Heights : PollHeight(p, h)
  \/ \E o \in TxOutcomes : PollConfirmed(p, o)

Unlock(u) ==
  \/ \E tip \in TipAnswers : UnlockStart(u, tip)
  \/ \E r \in {"ok", "fail", "empty"} : UnlockUtxo(u, r)
  \/ \E r \in {"ok", "fail"} : UnlockRawTx(u, r)
  \/ \E r \in {"ok", "cancelled", "nosig"} : UnlockSign(u, r)
  \/ \E r \in BroadcastAnswers, txid \in RedeemTxids : UnlockBroadcast(u, r, txid)

\* Spec: every operation of the client, with one activation of
\* refreshEscrowStatus at a time (the 30 s interval against two 10 s request
\* timeouts) and both unlock paths
Next ==
  \/ Setup
  \/ \E st \in DetectResults : DetectFunding(st)
  \/ OnFunded
  \/ Poll("p1")
  \/ \E u \in Unlockers : Unlock(u)

Spec == Init /\ [][Next]_vars

\* SpecRace: the detail page alone, with overlapping activations of
\* refreshEscrowStatus (a delayed timer, a re-run effect, a poll of a page
\* left and mounted again that is still in flight) against its own
\* unlock
NextRace ==
  \/ Setup
  \/ OnFunded
  \/ \E p \in Pollers : Poll(p)
  \/ Unlock("page")

SpecRace == Init /\ [][NextRace]_vars

\* useEscrowStore.removeEscrow, called by a user of the store
RemoveEscrow ==
  /\ hasEscrow(escrows, EscrowId)
  /\ escrows' = removeEscrow(escrows, EscrowId)
  /\ UNCHANGED <<view, walletConnected, pollVars, pcF, unlockVars, serverVars, built, poller>>

\* SpecStore: the writers of the store (creation, funding, detection and the
\* page poll) against a removal of the escrow
NextStore ==
  \/ Setup
  \/ \E st \in DetectResults : DetectFunding(st)
  \/ OnFunded
  \/ Poll("p1")
  \/ RemoveEscrow

SpecStore == Init /\ [][NextStore]_vars

\* the record of the escrow in the client store, and in the route's database
stored == getEscrow(escrows, EscrowId)
served == getEscrow(db, EscrowId)

\* ------------------------------------------------ polls, one after another
\* refreshEscrowStatus run to completion on the record rec (lines 61-95):
\* tipQ is the answer of getBlockHeight, txOutcome that of the transaction
\* lookup (made only when the record is pending with a funding txid)
refreshEscrowStatus(rec, tipQ, txOutcome) ==
  IF tipQ = HeightFail
    THEN rec
    ELSE LET r1 == IF pageChecksFunding(rec) /\ isTransactionConfirmed(txOutcome)
                     THEN Spread(rec, pollActiveUpdate) ELSE rec
         IN IF pageReadyWrite(rec, tipQ) THEN Spread(r1, pollReadyUpdate) ELSE r1

\* GET /api/escrow/status, lines 43-54: the unlock condition; the tip height
\* is asked for only for a timelock with an unlock time, a failure gives false
routeAsksTip(rec) == rec.unlockType = "timelock" /\ TruthyNum(rec.unlockTime)

routeReadyToUnlock(rec, tipQ) ==
  IF routeAsksTip(rec)
    THEN tipQ # HeightFail /\ tipQ >= rec.unlockTime
    ELSE IF rec.unlockType = "dual-approval"
      THEN rec.buyerSigned /\ rec.sellerSigned
      ELSE FALSE

\* GET /api/escrow/status, lines 36-58, on the stored object
routeStatus(rec, txOutcome, tipQ) ==
  LET s1 == IF isTransactionConfirmed(txOutcome) /\ rec.status = "pending"
              THEN "active" ELSE rec.status
      s2 == IF routeReadyToUnlock(rec, tipQ) /\ s1 = "active"
              THEN "ready-to-unlock" ELSE s1
  IN [rec EXCEPT !.status = s2]

\* the status route saves the config it is posted and addEscrow the record it
\* is given, an unlock height of 0 included
StoredUnlockTimes == 0..MaxUnlockTime

\* records a store can hold when polling starts
Configs ==
  {[unlockType |-> "timelock", unlockTime |-> ut, buyerSigned |-> FALSE, sellerSigned |-> FALSE] :
     ut \in StoredUnlockTimes}
  \cup
  {[unlockType |-> "dual-approval", unlockTime |-> NoTime, buyerSigned |-> b, sellerSigned |-> c] :
     b \in BOOLEAN, c \in BOOLEAN}

Statuses == {"pending", "active", "ready-to-unlock", "released"}

RecordOf(st, ftx, cfg) ==
  [id |-> EscrowId, status |-> st, fundingTxid |-> ftx,
   redeemTxid |-> IF st = "released" THEN "r1" ELSE Undef,
   unlockedAt |-> IF st = "released" THEN NowSec ELSE 0,
   unlockType |-> cfg.unlockType, unlockTime |-> cfg.unlockTime,
   buyerSigned |-> cfg.buyerSigned, sellerSigned |-> cfg.sellerSigned]

Records ==
  {RecordOf(st, ftx, cfg) : st \in Statuses, ftx \in FundTxids \cup {""}, cfg \in Configs}

InitPoll ==
  /\ \E r \in Records :
       /\ escrows = addEscrow(<< >>, r)
       /\ db = addEscrow(<< >>, r)
  /\ view = NoView
  /\ walletConnected = FALSE
  /\ pcP = [p \in Pollers |-> "idle"]
  /\ cur = [p \in Pollers |-> NoRead]
  /\ pcF = NoFunding
  /\ pcU = [u \in Unlockers |-> "idle"]
  /\ error = [u \in Unlockers |-> NoError]
  /\ facts = NoFacts
  /\ built = NoCall
  /\ poller = NoPoller

clientVars == <<view, walletConnected, pollVars, pcF, unlockVars>>

\* one complete poll of the detail page; a record that is not pending with a
\* funding txid makes no transaction lookup
PagePoll(tipQ, txOutcome) ==
  LET rec == getEscrow(escrows, EscrowId)
      asksTx == tipQ # HeightFail /\ pageChecksFunding(rec) IN
  /\ ~asksTx => txOutcome = "unconfirmed"
  /\ escrows' = addEscrow(escrows, refreshEscrowStatus(rec, tipQ, txOutcome))
  /\ facts' = [op |-> "page", before |-> rec.status, tx |-> txOutcome, tip |-> tipQ,
               failed |-> tipQ = HeightFail \/ (asksTx /\ txOutcome = "fail")]
  /\ UNCHANGED <<db, clientVars, built, poller>>

\* one GET of the status route; no transaction exists under an empty txid
RoutePoll(txOutcome, tipQ) ==
  LET rec == getEscrow(db, EscrowId)
      asksTip == routeAsksTip(rec) IN
  /\ ~Truthy(rec.fundingTxid) => txOutcome = "fail"
  /\ ~asksTip => tipQ = 0
  /\ db' = addEscrow(db, routeStatus(rec, txOutcome, tipQ))
  /\ facts' = [op |-> "route", before |-> rec.status, tx |-> txOutcome, tip |-> tipQ,
               failed |-> txOutcome = "fail" \/ (asksTip /\ tipQ = HeightFail)]
  /\ UNCHANGED <<escrows, clientVars, built, poller>>

\* between two polls the signing-coordination step reports the approvals
\* anew, possibly stale ones
ApprovalsReported(b, c) ==
  LET flags == [buyerSigned |-> b, sellerSigned |-> c] IN
  /\ stored.unlockType = "dual-approval"
  /\ escrows' = updateEscrow(escrows, EscrowId, flags)
  /\ db' = updateEscrow(db, EscrowId, flags)
  /\ facts' = NoFacts
  /\ UNCHANGED <<clientVars, built, poller>>

NextPoll ==
  \/ \E tipQ \in TipAnswers, o \in TxOutcomes : PagePoll(tipQ, o)
  \/ \E tipQ \in TipAnswers, o \in TxOutcomes : RoutePoll(o, tipQ)
  \/ \E b \in BOOLEAN, c \in BOOLEAN : ApprovalsReported(b, c)

SpecPoll == InitPoll /\ [][NextPoll]_vars

\* ================================================= the unlock transaction
\* ---------------------------------------------------------------- values
\* public keys are compressed keys of 33 bytes that differ in their first
\* KeyLen bytes; a signature is known by the key that made it
KeyLen == 2
KeyBytes == {1, 2}
PadKey(v) == [i \in 1..33 |-> IF i <= KeyLen THEN v[i] ELSE 0]
Keys == {PadKey(v) : v \in [1..KeyLen -> KeyBytes]}

\* byte strings of other lengths that a caller can pass as a public key: an
\* x-only key, one byte off either way, an uncompressed key
KeyOfLen(n) == [i \in 1..n |-> 1]
OtherKeys == {KeyOfLen(n) : n \in {32, 34, 64, 65, 66}}

\* fee rates (tenths of a sat/vB) the builder is given, the dust limit, the
\* flat fee of the detail page, the two input sequence numbers
FeeRateTenths == {10, 15, 20}
DustLimit == 546
PageFee == 1000
SequenceFinal == "0xffffffff"
SequenceLocktime == "0xfffffffe"

\* a script is a sequence of elements: an opcode, or the push of a key, of a
\* signature, or of a whole script
Op(name) == [kind |-> name, key |-> << >>, body |-> << >>]
PushKey(pk) == [kind |-> "pubkey", key |-> pk, body |-> << >>]
PushSig(pk) == [kind |-> "signature", key |-> pk, body |-> << >>]
PushScript(script) == [kind |-> "script", key |-> << >>, body |-> script]

\* an entry of input.partialSig
PartialSig(pk) == [pubkey |-> pk, signature |-> PushSig(pk)]

\* Buffer.compare: byte-lexicographic order of two keys, as -1, 0 or 1
RECURSIVE compareFrom(_, _, _)
compareFrom(a, b, i) ==
  IF i > Len(a) /\ i > Len(b) THEN 0
  ELSE IF i > Len(a) THEN -1
  ELSE IF i > Len(b) THEN 1
  ELSE IF a[i] < b[i] THEN -1
  ELSE IF a[i] > b[i] THEN 1
  ELSE compareFrom(a, b, i + 1)

compare(a, b) == compareFrom(a, b, 1)

\* [...input.partialSig].sort((a, b) => a.pubkey.compare(b.pubkey)): a stable
\* sort, here by insertion
RECURSIVE insertByPubkey(_, _)
insertByPubkey(ps, sorted) ==
  IF sorted = << >> THEN <<ps>>
  ELSE IF compare(ps.pubkey, Head(sorted).pubkey) < 0
    THEN <<ps>> \o sorted
    ELSE <<Head(sorted)>> \o insertByPubkey(ps, Tail(sorted))

RECURSIVE sortByPubkey(_)
sortByPubkey(list) ==
  IF list = << >> THEN << >>
  ELSE insertByPubkey(list[Len(list)], sortByPubkey(SubSeq(list, 1, Len(list) - 1)))

\* ------------------------------------------------------------ the scripts
\* signer.buildMultisigScript: the keys in the order given
buildMultisigScript(publicKey1, publicKey2) ==
  <<Op("OP_2"), PushKey(publicKey1), PushKey(publicKey2), Op("OP_2"),
    Op("OP_CHECKMULTISIG")>>

\* the bytes of n, least significant first (n & 0xff, n >>> 8)
RECURSIVE littleEndian(_)
littleEndian(n) == IF n = 0 THEN << >> ELSE <<n % 256>> \o littleEndian(n \div 256)

\* signer.numberToBuffer, for num >= 0 (a negative num throws)
numberToBuffer(num) ==
  IF num = 0 THEN <<0>>
  ELSE IF num <= 75 THEN <<num>>
  ELSE IF num <= 255 THEN <<76, num>>
  ELSE LET bytes == littleEndian(num)
       IN IF bytes[Len(bytes)] >= 128 THEN bytes \o <<0>> ELSE bytes

\* script.compile on a buffer: a one-byte buffer 1..16 becomes OP_1..OP_16, the
\* byte 0x81 becomes OP_1NEGATE, every other buffer is pushed as data
compileBuffer(buf) ==
  IF Len(buf) = 0 THEN Op("OP_0")
  ELSE IF Len(buf) = 1 /\ buf[1] \in 1..16
    THEN [kind |-> "OP_N", key |-> buf, body |-> << >>]
  ELSE IF Len(buf) = 1 /\ buf[1] = 129 THEN Op("OP_1NEGATE")
  ELSE [kind |-> "push", key |-> buf, body |-> << >>]

\* signer.buildTimelockScript
buildTimelockScript(unlockTime, publicKey) ==
  <<compileBuffer(numberToBuffer(unlockTime)),
    Op("OP_CHECKLOCKTIMEVERIFY"), Op("OP_DROP"), PushKey(publicKey),
    Op("OP_CHECKSIG")>>

\* the magnitude of little-endian bytes, the sign bit of the last byte left out
RECURSIVE magnitude(_)
magnitude(bytes) ==
  IF Len(bytes) = 0 THEN 0
  ELSE IF Len(bytes) = 1 THEN bytes[1] % 128
  ELSE bytes[1] + 256 * magnitude(Tail(bytes))

\* the number the script interpreter reads from a script element
scriptNumber(element) ==
  IF element.kind = "OP_N" THEN element.key[1]
  ELSE IF element.kind = "OP_1NEGATE" THEN -1
  ELSE IF element.kind = "OP_0" THEN 0
  ELSE IF element.key[Len(element.key)] >= 128
    THEN -magnitude(element.key)
    ELSE magnitude(element.key)

\* ------------------------------------------------------------ the builder
\* detector.estimateUnlockTxSize
estimateUnlockTxSize(unlockType) ==
  10 + (IF unlockType = "timelock" THEN 200 ELSE 260) + 34

\* Math.ceil(estimatedSize * feeRate), the fee rate in tenths
unlockFee(unlockType, rateTenths) ==
  (estimateUnlockTxSize(unlockType) * rateTenths + 9) \div 10

\* Math.max(546, utxo.value - fee)
outputAmount(value, fee) == IF value - fee > DustLimit THEN value - fee ELSE DustLimit

\* unlockType === 'timelock' && !!unlockTime
isTimelock(unlockType, unlockTime) == unlockType = "timelock" /\ TruthyNum(unlockTime)

\* the locktime and the input sequence both builders set (a new Psbt has
\* locktime 0)
unlockLocktime(unlockType, unlockTime) ==
  IF isTimelock(unlockType, unlockTime) THEN unlockTime ELSE 0

unlockSequence(unlockType, unlockTime) ==
  IF isTimelock(unlockType, unlockTime) THEN SequenceLocktime ELSE SequenceFinal

\* detector.buildUnlockPSBT: it has no failing path of its own
buildUnlockPSBT(unlockType, unlockTime, value, rateTenths) ==
  [failed |-> FALSE,
   locktime |-> unlockLocktime(unlockType, unlockTime),
   sequence |-> unlockSequence(unlockType, unlockTime),
   outputs |-> <<outputAmount(value, unlockFee(unlockType, rateTenths))>>]

\* handleUnlock of the detail page, lines 145-164; addOutput of the library
\* throws on a negative amount
pageBuildPSBT(unlockType, unlockTime, value) ==
  [failed |-> value - PageFee < 0,
   locktime |-> unlockLocktime(unlockType, unlockTime),
   sequence |-> unlockSequence(unlockType, unlockTime),
   outputs |-> IF value - PageFee < 0 THEN << >> ELSE <<value - PageFee>>]

\* ---------------------------------------------------------- the finalizers
Finalized(scriptSig) == [failed |-> FALSE, error |-> NoError, scriptSig |-> scriptSig]
Thrown(kind) == [failed |-> TRUE, error |-> kind, scriptSig |-> << >>]

\* mutation of finalizeTimelockPSBT: the public key is pushed as well, as the
\* comment above the function has it
finalizeTimelockPSBTWithPubkey(partialSig, redeemScript) ==
  IF Len(partialSig) = 0
    THEN Thrown("MissingSignature")
    ELSE Finalized(<<partialSig[1].signature, PushKey(partialSig[1].pubkey),
                     PushScript(redeemScript)>>)

\* detector.finalizeTimelockPSBT
finalizeTimelockPSBT(partialSig, redeemScript) ==
  IF Len(partialSig) = 0
    THEN Thrown("MissingSignature")
    ELSE Finalized(<<partialSig[1].signature, PushScript(redeemScript)>>)

\* mutation of finalizeMultisigPSBT: the signatures are taken in the order
\* they were collected
finalizeMultisigPSBTUnsorted(partialSig, redeemScript) ==
  IF Len(partialSig) < 2
    THEN Thrown("MissingSignature")
    ELSE Finalized(<<Op("OP_0"), partialSig[1].signature, partialSig[2].signature,
                     PushScript(redeemScript)>>)

\* detector.finalizeMultisigPSBT
finalizeMultisigPSBT(partialSig, redeemScript) ==
  IF Len(partialSig) < 2
    THEN Thrown("MissingSignature")
    ELSE LET sorted == sortByPubkey(partialSig)
         IN Finalized(<<Op("OP_0"), sorted[1].signature, sorted[2].signature,
                        PushScript(redeemScript)>>)

\* unlockEscrow, lines 207-212: the finalizer is chosen by the unlock type
hookFinalize(unlockType, partialSig, redeemScript) ==
  IF unlockType = "timelock"
    THEN finalizeTimelockPSBT(partialSig, redeemScript)
    ELSE finalizeMultisigPSBT(partialSig, redeemScript)

\* handleUnlock of the detail page, lines 175-187: one finalizer for both
\* unlock types
pageFinalize(unlockType, partialSig, redeemScript) ==
  IF Len(partialSig) = 0
    THEN Thrown("MissingSignature")
    ELSE Finalized(<<partialSig[1].signature, PushScript(redeemScript)>>)

\* ------------------------------------------- building and finalizing, alone
\* Builders and finalizers keep nothing between calls: a behaviour of this
\* part is one call, whose arguments and result stay in built.
\* the values the builders and finalizers are called with
UtxoValues == {500, 900, 1000, 1200, 5000}
UnlockTypes == {"timelock", "dual-approval"}

\* UnlockPSBTParams.unlockTime is an optional number: absent, zero or a height
PsbtUnlockTimes == {NoTime} \cup 0..MaxUnlockTime

\* the unlock heights a timelock script is compiled for: every height up to
\* MaxScriptHeight and both sides of the two- and three-byte sign boundaries
MaxScriptHeight == 300
ScriptHeights == 0..MaxScriptHeight \cup {32767, 32768, 65535, 65536, 8388607, 8388608}

\* the redeem scripts an escrow is created with
TimelockScripts == {buildTimelockScript(ut, pk) : ut \in UnlockTimes, pk \in Keys}
MultisigScripts == {buildMultisigScript(pk1, pk2) : pk1 \in Keys, pk2 \in Keys}
ScriptsOf(unlockType) ==
  IF unlockType = "timelock" THEN TimelockScripts ELSE MultisigScripts

\* the partialSig lists a signed PSBT can hold: one entry per signing key
PartialSigs ==
  {<< >>} \cup {<<PartialSig(pk)>> : pk \in Keys}
          \cup UNION {{<<PartialSig(p), PartialSig(q)>> : q \in Keys \ {p}} : p \in Keys}

\* unlockEscrow, lines 176-182: the hook builds the PSBT
HookBuild(unlockType, unlockTime, value, rateTenths) ==
  /\ built = NoCall
  /\ built' = [op |-> "build", path |-> "hook", unlockType |-> unlockType,
               unlockTime |-> unlockTime, value |-> value, feeRate |-> rateTenths,
               psbt |-> buildUnlockPSBT(unlockType, unlockTime, value, rateTenths)]
  /\ UNCHANGED <<escrows, view, walletConnected, pcP, cur, pcF, pcU, error, db, facts, poller>>

\* handleUnlock of the detail page, lines 145-164
PageBuild(unlockType, unlockTime, value) ==
  /\ built = NoCall
  /\ built' = [op |-> "build", path |-> "page", unlockType |-> unlockType,
               unlockTime |-> unlockTime, value |-> value, feeRate |-> 0,
               psbt |-> pageBuildPSBT(unlockType, unlockTime, value)]
  /\ UNCHANGED <<escrows, view, walletConnected, pcP, cur, pcF, pcU, error, db, facts, poller>>

\* unlockEscrow, lines 207-212
HookFinalize(unlockType, redeemScript, partialSig) ==
  /\ built = NoCall
  /\ redeemScript \in ScriptsOf(unlockType)
  /\ built' = [op |-> "finalize", path |-> "hook", unlockType |-> unlockType,
               redeemScript |-> redeemScript, partialSig |-> partialSig,
               result |-> hookFinalize(unlockType, partialSig, redeemScript)]
  /\ UNCHANGED <<escrows, view, walletConnected, pcP, cur, pcF, pcU, error, db, facts, poller>>

\* handleUnlock of the detail page, lines 175-187
PageFinalize(unlockType, redeemScript, partialSig) ==
  /\ built = NoCall
  /\ redeemScript \in ScriptsOf(unlockType)
  /\ built' = [op |-> "finalize", path |-> "page", unlockType |-> unlockType,
               redeemScript |-> redeemScript, partialSig |-> partialSig,
               result |-> pageFinalize(unlockType, partialSig, redeemScript)]
  /\ UNCHANGED <<escrows, view, walletConnected, pcP, cur, pcF, pcU, error, db, facts, poller>>

\* a call of buildTimelockScript: numberToBuffer throws on a negative number,
\* nothing looks at the public key
compileTimelock(unlockTime, publicKey) ==
  IF unlockTime < 0
    THEN [failed |-> TRUE, error |-> "NegativeNumber", script |-> << >>]
    ELSE [failed |-> FALSE, error |-> NoError,
          script |-> buildTimelockScript(unlockTime, publicKey)]

\* createEscrow and handleGenerateScript compile the redeem script of a
\* timelock escrow
CompileTimelock(unlockTime, publicKey) ==
  /\ built = NoCall
  /\ built' = [op |-> "compile", unlockTime |-> unlockTime, publicKey |-> publicKey,
               failed |-> compileTimelock(unlockTime, publicKey).failed,
               error |-> compileTimelock(unlockTime, publicKey).error,
               script |-> compileTimelock(unlockTime, publicKey).script]
  /\ UNCHANGED <<escrows, view, walletConnected, pcP, cur, pcF, pcU, error, db, facts, poller>>

NextPsbt ==
  \/ \E h \in ScriptHeights \cup {-1}, pk \in Keys \cup OtherKeys : CompileTimelock(h, pk)
  \/ \E t \in UnlockTypes, ut \in PsbtUnlockTimes, v \in UtxoValues, r \in FeeRateTenths :
       HookBuild(t, ut, v, r)
  \/ \E t \in UnlockTypes, ut \in PsbtUnlockTimes, v \in UtxoValues : PageBuild(t, ut, v)
  \/ \E t \in UnlockTypes : \E sc \in ScriptsOf(t), ps \in PartialSigs :
       HookFinalize(t, sc, ps)
  \/ \E t \in UnlockTypes : \E sc \in ScriptsOf(t), ps \in PartialSigs :
       PageFinalize(t, sc, ps)

SpecPsbt == Init /\ [][NextPsbt]_vars

\* the two keys a multisig redeem script was compiled with, in script order
scriptKey1(redeemScript) == redeemScript[2].key
scriptKey2(redeemScript) == redeemScript[3].key

\* ------------------------------------------------ the detector, call by call
\* A detector operation keeps nothing between calls: a behaviour of this part
\* is one call, whose arguments and answer stay in built.
\* the block heights a confirmed UTXO or transaction is reported at
BlockHeights == 1..MaxHeight

Max0(n) == IF n > 0 THEN n ELSE 0

\* GET /api/escrow/detect, lines 39-80: a failing getUTXOs reaches the outer
\* catch (status 500), a failing getBlockHeight leaves confirmations at 0
detectRoute(utxoQ, utxoConfirmed, utxoHeight, tipQ) ==
  IF utxoQ = "fail"
    THEN [isFunded |-> FALSE, confirmations |-> 0, isSpendable |-> FALSE, threw |-> TRUE]
  ELSE IF utxoQ = "none"
    THEN [isFunded |-> FALSE, confirmations |-> 0, isSpendable |-> FALSE, threw |-> FALSE]
  ELSE LET confirmations ==
             IF tipQ # HeightFail /\ utxoConfirmed /\ utxoHeight # 0
               THEN tipQ - utxoHeight + 1
               ELSE 0
       IN [isFunded |-> TRUE, confirmations |-> confirmations,
           isSpendable |-> utxoConfirmed /\ confirmations >= 1, threw |-> FALSE]

\* MempoolClient.getTransactionConfirmations
getTransactionConfirmations(txOutcome, txHeight, tipQ) ==
  IF txOutcome # "confirmed" \/ tipQ = HeightFail
    THEN 0
    ELSE Max0(tipQ - txHeight + 1)

\* detector.getBlocksUntilUnlock
getBlocksUntilUnlock(unlockBlockHeight, tipQ) ==
  IF tipQ = HeightFail THEN -1 ELSE Max0(unlockBlockHeight - tipQ)

\* one call of checkEscrowStatus
CheckEscrowStatus(utxoQ, utxoConfirmed, utxoHeight, tipQ) ==
  /\ built = NoCall
  /\ built' = [op |-> "confirmations", fn |-> "checkEscrowStatus",
               utxoQ |-> utxoQ, confirmed |-> utxoConfirmed,
               blockHeight |-> utxoHeight, tip |-> tipQ, threw |-> FALSE,
               status |-> checkEscrowStatus(utxoQ, utxoConfirmed, utxoHeight, tipQ)]
  /\ UNCHANGED <<escrows, view, walletConnected, pcP, cur, pcF, pcU, error, db, facts, poller>>

\* one GET of /api/escrow/detect
DetectRoute(utxoQ, utxoConfirmed, utxoHeight, tipQ) ==
  /\ built = NoCall
  /\ LET r == detectRoute(utxoQ, utxoConfirmed, utxoHeight, tipQ) IN
       built' = [op |-> "confirmations", fn |-> "detectRoute",
                 utxoQ |-> utxoQ, confirmed |-> utxoConfirmed,
                 blockHeight |-> utxoHeight, tip |-> tipQ, threw |-> r.threw,
                 status |-> [isFunded |-> r.isFunded, confirmations |-> r.confirmations,
                             isSpendable |-> r.isSpendable]]
  /\ UNCHANGED <<escrows, view, walletConnected, pcP, cur, pcF, pcU, error, db, facts, poller>>

\* one call of getTransactionConfirmations
TransactionConfirmations(txOutcome, txHeight, tipQ) ==
  /\ built = NoCall
  /\ LET n == getTransactionConfirmations(txOutcome, txHeight, tipQ) IN
       built' = [op |-> "confirmations", fn |-> "getTransactionConfirmations",
                 utxoQ |-> IF txOutcome = "fail" THEN "fail" ELSE "found",
                 confirmed |-> txOutcome = "confirmed",
                 blockHeight |-> txHeight, tip |-> tipQ, threw |-> FALSE,
                 status |-> [isFunded |-> txOutcome # "fail", confirmations |-> n,
                             isSpendable |-> n >= 1]]
  /\ UNCHANGED <<escrows, view, walletConnected, pcP, cur, pcF, pcU, error, db, facts, poller>>

\* one call of isTimelockExpired
IsTimelockExpired(unlockBlockHeight, tipQ) ==
  /\ built = NoCall
  /\ built' = [op |-> "isTimelockExpired", unlockBlockHeight |-> unlockBlockHeight,
               tip |-> tipQ, threw |-> FALSE,
               expired |-> isTimelockExpired(unlockBlockHeight, tipQ)]
  /\ UNCHANGED <<escrows, view, walletConnected, pcP, cur, pcF, pcU, error, db, facts, poller>>

\* one call of getBlocksUntilUnlock
GetBlocksUntilUnlock(unlockBlockHeight, tipQ) ==
  /\ built = NoCall
  /\ built' = [op |-> "getBlocksUntilUnlock", unlockBlockHeight |-> unlockBlockHeight,
               tip |-> tipQ, threw |-> FALSE,
               blocks |-> getBlocksUntilUnlock(unlockBlockHeight, tipQ)]
  /\ UNCHANGED <<escrows, view, walletConnected, pcP, cur, pcF, pcU, error, db, facts, poller>>

NextDetect ==
  \/ \E q \in UtxoOutcomes, c \in BOOLEAN, uh \in BlockHeights, tip \in TipAnswers :
       CheckEscrowStatus(q, c, uh, tip)
  \/ \E q \in UtxoOutcomes, c \in BOOLEAN, uh \in BlockHeights, tip \in TipAnswers :
       DetectRoute(q, c, uh, tip)
  \/ \E o \in TxOutcomes, th \in BlockHeights, tip \in TipAnswers :
       TransactionConfirmations(o, th, tip)
  \/ \E h \in Heights, tip \in TipAnswers : IsTimelockExpired(h, tip)
  \/ \E h \in Heights, tip \in TipAnswers : GetBlocksUntilUnlock(h, tip)

SpecDetect == Init /\ [][NextDetect]_vars

\* ------------------------------------------------------- useEscrowPoller
\* checks counted up to MaxChecks, interval timer ids 1..MaxTimers
MaxChecks == 3
MaxTimers == 2
TimerIds == 1..MaxTimers

notPoller == <<escrows, view, walletConnected, pcP, cur, pcF, pcU, error, db, facts, built>>

\* checkStatus, lines 416-439: checkCount + 1 (counted up to MaxChecks)
checked(p) ==
  [p EXCEPT !.checkCount = IF p.checkCount < MaxChecks THEN p.checkCount + 1 ELSE p.checkCount]

\* setInterval hands out an id no live timer has
newTimer(p) == CHOOSE t \in TimerIds : t \notin p.timers /\ \A u \in TimerIds \ p.timers : t <= u

\* startPolling, lines 442-454
startPolling(p) ==
  IF p.ref # 0
    THEN p
    ELSE [checked(p) EXCEPT !.isPolling = TRUE, !.ref = newTimer(p),
                            !.timers = p.timers \cup {newTimer(p)}]

\* stopPolling, lines 457-463
stopPolling(p) ==
  [p EXCEPT !.timers = p.timers \ {p.ref}, !.ref = 0, !.isPolling = FALSE]

\* the cleanup the effect returns, lines 473-478: the timer is cleared, the ref
\* keeps its id
cleanup(p) == [p EXCEPT !.timers = p.timers \ {p.ref}]

\* the effect body, lines 467-471, on the enabled and state.isPolling of the
\* render it belongs to
effectBody(p) ==
  IF p.enabled /\ ~p.isPolling THEN startPolling(p)
  ELSE IF ~p.enabled /\ p.isPolling THEN stopPolling(p)
  ELSE p

\* the effect has to run: after mount, and after a render with changed
\* enabled or state.isPolling
effectDue(p) ==
  p.mounted /\ (~p.deps.ran \/ p.deps.enabled # p.enabled \/ p.deps.isPolling # p.isPolling)

\* the component using the hook mounts: useState({isPolling: enabled, ...}),
\* useRef(null)
PollerMount(enabled) ==
  /\ ~poller.mounted
  /\ poller.timers = {}
  /\ poller' = [NoPoller EXCEPT !.mounted = TRUE, !.enabled = enabled, !.isPolling = enabled]
  /\ UNCHANGED notPoller

\* React runs the effect: the cleanup of its previous run, then its body
PollerEffect ==
  /\ effectDue(poller)
  /\ LET seen == [ran |-> TRUE, enabled |-> poller.enabled, isPolling |-> poller.isPolling]
         p1 == IF poller.deps.ran THEN cleanup(poller) ELSE poller
     IN poller' = [effectBody(p1) EXCEPT !.deps = seen]
  /\ UNCHANGED notPoller

\* the parent renders the hook with another value of enabled
PollerSetEnabled(enabled) ==
  /\ poller.mounted
  /\ poller.enabled # enabled
  /\ poller' = [poller EXCEPT !.enabled = enabled]
  /\ UNCHANGED notPoller

\* the caller uses the startPolling it was returned
PollerStart ==
  /\ poller.mounted
  /\ poller' = startPolling(poller)
  /\ UNCHANGED notPoller

\* the caller uses the stopPolling it was returned
PollerStop ==
  /\ poller.mounted
  /\ poller' = stopPolling(poller)
  /\ UNCHANGED notPoller

\* a live interval timer fires: checkStatus
PollerTick ==
  /\ poller.timers # {}
  /\ poller' = checked(poller)
  /\ UNCHANGED notPoller

\* the component unmounts: the cleanup runs
PollerUnmount ==
  /\ poller.mounted
  /\ poller' = [cleanup(poller) EXCEPT !.mounted = FALSE]
  /\ UNCHANGED notPoller

NextPoller ==
  \/ \E e \in BOOLEAN : PollerMount(e)
  \/ PollerEffect
  \/ \E e \in BOOLEAN : PollerSetEnabled(e)
  \/ PollerStart
  \/ PollerStop
  \/ PollerTick
  \/ PollerUnmount

SpecPoller == Init /\ [][NextPoller]_vars

\* ================================================================ properties
\* -------------------------------------------------------------------- C1
\* C1: under any sequence of status polls applied one after another to one
\* record (refreshEscrowStatus on the page, GET /api/escrow/status), whatever
\* the chain answers, no poll moves the status to an earlier stage of
\* pending < active < ready-to-unlock < released.   (SpecPoll)
C1_SequentialPollsNeverMoveBackward ==
  [][/\ Rank(stored'.status) >= Rank(stored.status)
     /\ Rank(served'.status) >= Rank(served.status)]_vars

\* a GET has answered a ready-to-unlock timelock record with a tip height
\* below its unlock time (a stale tip), and the record is still ready-to-unlock
C1_WitnessStaleTipPolled ==
  /\ facts.op = "route"
  /\ facts.before = "ready-to-unlock"
  /\ served.unlockType = "timelock"
  /\ facts.tip # HeightFail
  /\ facts.tip < served.unlockTime
  /\ served.status = "ready-to-unlock"

\* -------------------------------------------------------------------- C2
\* C2: released is terminal: once the stored status is released, no step of
\* any lifecycle operation (poll, detectFunding, fundEscrow, onFunded, unlock)
\* changes it.   (Spec)
C2_ReleasedIsTerminal ==
  [][stored.status = "released" => stored'.status = "released"]_vars

\* -------------------------------------------------------------------- C3
\* C3: when activations of refreshEscrowStatus overlap each other or the
\* page's unlock, the step in which a poll finishes never leaves the stored
\* status at an earlier stage than it found it.   (SpecRace)
C3_OverlappingPollNeverRegresses ==
  [][(\E p \in Pollers : pcP[p] # "idle" /\ pcP'[p] = "idle")
       => Rank(stored'.status) >= Rank(stored.status)]_vars

\* -------------------------------------------------------------------- C4
\* C4: in every reachable state a non-empty redeemTxid implies that the
\* status is released.   (Spec)
C4_RedeemTxidImpliesReleased ==
  Truthy(stored.redeemTxid) => stored.status = "released"

\* -------------------------------------------------------------------- C5
\* the step is one in which the chain reported the funding confirmed: a
\* confirmed transaction lookup of a poll, the detector's onFunded, or a
\* detection that found the output spendable
C5_ConfirmedReported ==
  \/ \E p \in Pollers : PollConfirmed(p, "confirmed")
  \/ OnFunded
  \/ \E st \in DetectResults : st.isSpendable /\ DetectFunding(st)

\* C5: the status goes from pending to active only in a step where the record
\* holds a non-empty fundingTxid and the chain reported the funding
\* confirmed; an escrow with no fundingTxid never becomes active.   (Spec)
C5_ActiveOnlyWithConfirmedFunding ==
  [][(stored.status = "pending" /\ stored'.status = "active")
       => (Truthy(stored.fundingTxid) /\ C5_ConfirmedReported)]_vars

\* -------------------------------------------------------------------- C6
\* the unlock condition as the lifecycle states it, on the tip height obtained
C6_UnlockCondition(rec, tip) ==
  \/ rec.unlockType = "timelock" /\ tip # HeightFail /\ tip >= rec.unlockTime
  \/ rec.unlockType = "dual-approval" /\ rec.buyerSigned /\ rec.sellerSigned

\* C6: a poll moves the status from active to ready-to-unlock only if the
\* escrow is a timelock whose unlockTime the obtained tip height has reached,
\* or a dual-approval with buyerSigned and sellerSigned both true; a
\* dual-approval record with a flag false stays active under any number of
\* polls.   (SpecPoll)
C6_ReadyOnlyWhenUnlockConditionHolds ==
  [][/\ (stored.status = "active" /\ stored'.status = "ready-to-unlock")
          => C6_UnlockCondition(stored, facts'.tip)
     /\ (served.status = "active" /\ served'.status = "ready-to-unlock")
          => C6_UnlockCondition(served, facts'.tip)]_vars

\* a page poll has found a dual-approval record active and left it
\* ready-to-unlock
C6_WitnessDualApprovalReady ==
  /\ facts.op = "page"
  /\ facts.before = "active"
  /\ stored.unlockType = "dual-approval"
  /\ stored.status = "ready-to-unlock"

\* -------------------------------------------------------------------- C7
\* C7: released is entered only from ready-to-unlock: no step takes the stored
\* status to released from pending or active.   (Spec)
C7_ReleasedOnlyFromReadyToUnlock ==
  [][(stored'.status = "released" /\ stored.status # "released")
       => stored.status = "ready-to-unlock"]_vars

\* -------------------------------------------------------------------- C8
\* C8: in every reachable state, status = released implies that redeemTxid
\* and unlockedAt are set (they are written by the update that writes
\* released).   (Spec)
C8_ReleasedHasRedeemTxidAndTime ==
  stored.status = "released" =>
    (Truthy(stored.redeemTxid) /\ stored.unlockedAt # 0)

\* the page's unlock has released the escrow
C8_WitnessReleasedByPage ==
  /\ stored.status = "released"
  /\ stored.redeemTxid \in RedeemTxids
  /\ stored.unlockedAt = NowSec
  /\ pcU["page"] = "idle"

\* -------------------------------------------------------------------- C9
\* C9: when the broadcast of the redeem transaction is rejected (a non-OK
\* answer or a thrown error), the unlock attempt ends with an error, and the
\* record (status, redeemTxid, unlockedAt) is as it was.   (Spec)
C9_RejectedBroadcastChangesNothing ==
  [][\A u \in Unlockers, r \in {"rejected", "thrown"}, txid \in RedeemTxids :
       UnlockBroadcast(u, r, txid) =>
         /\ pcU'[u] = "idle"
         /\ error'[u] # NoError
         /\ stored'.status = stored.status
         /\ stored'.redeemTxid = stored.redeemTxid
         /\ stored'.unlockedAt = stored.unlockedAt]_vars

\* an unlock attempt has ended on a rejected broadcast, the escrow still
\* ready-to-unlock with no redeem txid
C9_WitnessBroadcastRejected ==
  \E u \in Unlockers :
    /\ pcU[u] = "idle"
    /\ error[u] = "BroadcastRejected"
    /\ stored.status = "ready-to-unlock"
    /\ ~Truthy(stored.redeemTxid)

\* ------------------------------------------------------------------- C10
\* C10: a poll during which a chain query failed leaves the record as it
\* was: nothing derived from the answers obtained before the failure is
\* applied.   (SpecPoll)
C10_FailedQueryLeavesRecord ==
  [][facts'.failed => (escrows' = escrows /\ db' = db)]_vars

\* ------------------------------------------------------------------- C11
\* C11: when the user cancels the wallet's signing request during an unlock,
\* the attempt ends with the record (status, redeemTxid, unlockedAt) exactly
\* as it was, and an unlock that was offered before the cancellation is still
\* offered after it.   (Spec)
C11_CancelledSigningLeavesRecord ==
  [][\A u \in Unlockers :
       UnlockSign(u, "cancelled") =>
         /\ stored' = stored
         /\ pcU'[u] = "idle"
         /\ error'[u] = "UserDeclined"
         /\ \A tip \in TipAnswers :
              unlockOffered(u, tip) => unlockOffered(u, tip)']_vars

\* after a cancelled signing the form's unlock has been started again (the
\* form keeps the hook's last error until unlockEscrow is entered)
C11_WitnessRetryAfterCancel ==
  /\ error["form"] = "UserDeclined"
  /\ pcU["form"] = "utxo"
  /\ ~Truthy(stored.redeemTxid)

\* ------------------------------------------------------------------- C12
\* C12: polling is idempotent: for the record held and every fixed set of
\* chain facts (transaction lookup, tip height; the approvals are part of the
\* record), applying the poll twice gives the record that applying it once
\* gives, for the page's poll and for the status route.   (SpecPoll)
C12_PollIsIdempotent ==
  \A tipQ \in TipAnswers, o \in TxOutcomes :
    /\ refreshEscrowStatus(refreshEscrowStatus(stored, tipQ, o), tipQ, o)
         = refreshEscrowStatus(stored, tipQ, o)
    /\ routeStatus(routeStatus(served, o, tipQ), o, tipQ)
         = routeStatus(served, o, tipQ)

\* ------------------------------------------------------------------- C13
\* C13: once fundingTxid (respectively redeemTxid) holds a non-empty value,
\* no step of a poll or lifecycle operation clears it or replaces it with a
\* different value.   (Spec)
C13_TxidsNeverClearedOrReplaced ==
  [][/\ Truthy(stored.fundingTxid) => stored'.fundingTxid = stored.fundingTxid
     /\ Truthy(stored.redeemTxid) => stored'.redeemTxid = stored.redeemTxid]_vars

\* a finished call of finalizeMultisigPSBT by unlockEscrow, both keys of the
\* redeem script having signed
multisigFinalized ==
  /\ built.op = "finalize"
  /\ built.path = "hook"
  /\ built.unlockType = "dual-approval"
  /\ Len(built.partialSig) = 2
  /\ {built.partialSig[1].pubkey, built.partialSig[2].pubkey}
       = {scriptKey1(built.redeemScript), scriptKey2(built.redeemScript)}

\* C14: for every pair of keys (a, b) compiled in that order into the 2-of-2
\* redeem script and for every order in which the two signatures were
\* collected, the finalized script-sig is [OP_0, signature of the first key of
\* the script, signature of the second key of the script, redeem script].
C14_SignaturesInScriptKeyOrder ==
  multisigFinalized =>
    /\ ~built.result.failed
    /\ built.result.scriptSig
         = <<Op("OP_0"), PushSig(scriptKey1(built.redeemScript)),
             PushSig(scriptKey2(built.redeemScript)), PushScript(built.redeemScript)>>

\* a < b byte-lexicographically, for keys of one length
lexLess(a, b) ==
  \E i \in 1..Len(a) : a[i] < b[i] /\ \A j \in 1..(i - 1) : a[j] = b[j]

\* a finished call of finalizeMultisigPSBT by unlockEscrow on two signatures
twoSignaturesFinalized ==
  /\ built.op = "finalize"
  /\ built.path = "hook"
  /\ built.unlockType = "dual-approval"
  /\ Len(built.partialSig) = 2

\* C15: given two partial signatures whose signer keys satisfy pkA < pkB
\* (byte-lexicographic), finalizeMultisigPSBT produces the script-sig
\* [OP_0, sig_for_pkA, sig_for_pkB, redeemScript] for both orders of the
\* partialSig list.
C15_SignaturesSortedBySignerKey ==
  twoSignaturesFinalized =>
    \A i \in 1..2, j \in 1..2 :
      lexLess(built.partialSig[i].pubkey, built.partialSig[j].pubkey) =>
        /\ ~built.result.failed
        /\ built.result.scriptSig
             = <<Op("OP_0"), built.partialSig[i].signature,
                 built.partialSig[j].signature, PushScript(built.redeemScript)>>

\* the signatures were collected with the larger key first and came out with
\* the smaller key first
C15_WitnessCollectedLargerKeyFirst ==
  /\ twoSignaturesFinalized
  /\ lexLess(built.partialSig[2].pubkey, built.partialSig[1].pubkey)
  /\ built.result.scriptSig[2] = built.partialSig[2].signature
  /\ built.result.scriptSig[3] = built.partialSig[1].signature

\* a finished finalization of a timelock input that carries a signature
timelockFinalized ==
  /\ built.op = "finalize"
  /\ built.unlockType = "timelock"
  /\ Len(built.partialSig) >= 1

C17_DualApprovalNeedsTwoSignatures ==
  (/\ built.op = "finalize"
   /\ built.unlockType = "dual-approval"
   /\ Len(built.partialSig) < 2) =>
    /\ built.result.failed
    /\ built.result.error = "MissingSignature"
    /\ built.result.scriptSig = << >>

\* C18: every timelock unlock with unlock height h (h = 0 included) is built
\* with locktime h and input sequence 0xfffffffe; every dual-approval unlock is
\* built with input sequence 0xffffffff and locktime 0.
C18_LocktimeAndSequenceByUnlockType ==
  (built.op = "build" /\ ~built.psbt.failed) =>
    /\ (built.unlockType = "timelock" /\ built.unlockTime >= 0) =>
         /\ built.psbt.locktime = built.unlockTime
         /\ built.psbt.sequence = SequenceLocktime
    /\ built.unlockType = "dual-approval" =>
         /\ built.psbt.locktime = 0
         /\ built.psbt.sequence = SequenceFinal

\* C19: building an unlock PSBT for which utxo.value - fee < 546, the fee being
\* ceil(estimated size * fee rate), fails with an insufficient-funds error and
\* produces no transaction.
C19_BelowDustFailsToBuild ==
  (/\ built.op = "build"
   /\ built.path = "hook"
   /\ built.value - unlockFee(built.unlockType, built.feeRate) < DustLimit) =>
    /\ built.psbt.failed
    /\ built.psbt.outputs = << >>

\* C20: for every unlock height h >= 0 the first element of the script of
\* buildTimelockScript(h, pk) is a push whose value, read as a script number
\* (little-endian magnitude, sign in the top bit of the last byte), is h: the
\* height CHECKLOCKTIMEVERIFY compares is the locktime buildUnlockPSBT sets.
C20_ScriptPushesUnlockHeight ==
  (built.op = "compile" /\ built.unlockTime >= 0) =>
    /\ built.script[1].kind \in {"push", "OP_N", "OP_0"}
    /\ scriptNumber(built.script[1]) = built.unlockTime

\* C21: buildTimelockScript(0, pk) emits the single opcode OP_0 as the first
\* script element, not a one-byte data push of 0x00 nor any other push form.
C21_HeightZeroCompilesToOpZero ==
  (built.op = "compile" /\ built.unlockTime = 0) => built.script[1] = Op("OP_0")

\* an active timelock record with unlock height 0
activeAtHeightZero(rec) ==
  rec.status = "active" /\ rec.unlockType = "timelock" /\ rec.unlockTime = 0

\* C22: a timelock escrow with unlock height 0 is immediately unlockable: once
\* it is active, the next poll (of the page or of the status route) that does
\* not fail to obtain the tip height moves it to ready-to-unlock.
C22_HeightZeroUnlockableAtOnce ==
  [][/\ (facts'.op = "page" /\ facts'.tip # HeightFail /\ activeAtHeightZero(stored))
          => stored'.status = "ready-to-unlock"
     /\ (facts'.op = "route" /\ ~facts'.failed /\ activeAtHeightZero(served))
          => served'.status = "ready-to-unlock"]_vars

\* C23: compiling a timelock script fails with an invalid-parameter error and
\* returns no script whenever the unlock height is negative or the public key
\* is not exactly 33 or 65 bytes long.
C23_InvalidScriptParamsRejected ==
  (/\ built.op = "compile"
   /\ (built.unlockTime < 0 \/ Len(built.publicKey) \notin {33, 65})) =>
    /\ built.failed
    /\ built.script = << >>

\* C24: the confirmation count reported for a matching UTXO is
\* max(0, tip - block height + 1) when the UTXO is confirmed and 0 otherwise;
\* it is never negative, also when the tip read is below the block height.
C24_ConfirmationsClampedAtZero ==
  (built.op = "confirmations" /\ built.utxoQ = "found") =>
    /\ built.status.confirmations >= 0
    /\ built.tip # HeightFail =>
         built.status.confirmations
           = IF built.confirmed
               THEN (IF built.tip - built.blockHeight + 1 > 0
                       THEN built.tip - built.blockHeight + 1 ELSE 0)
               ELSE 0

\* C25: when a chain query fails inside a detector operation, the operation
\* does not throw and returns its neutral result: checkEscrowStatus reports
\* isSpendable = false and confirmations = 0 for a fact it could not
\* establish, isTimelockExpired returns false, getBlocksUntilUnlock returns -1.
C25_FailedQueryGivesNeutralResult ==
  /\ (/\ built.op = "confirmations"
      /\ built.fn = "checkEscrowStatus"
      /\ (built.utxoQ = "fail" \/ (built.utxoQ = "found" /\ built.tip = HeightFail))) =>
       /\ ~built.threw
       /\ built.status.confirmations = 0
       /\ ~built.status.isSpendable
  /\ (built.op = "isTimelockExpired" /\ built.tip = HeightFail) =>
       ~built.threw /\ ~built.expired
  /\ (built.op = "getBlocksUntilUnlock" /\ built.tip = HeightFail) =>
       ~built.threw /\ built.blocks = -1

\* C26: in the state ready-to-unlock (unlock condition met, wallet connected)
\* the unlock action is permitted: canUnlock answers true for the stored
\* escrow, so the control of UnlockEscrowForm is offered.
C26_ReadyToUnlockCanUnlock ==
  (/\ hasEscrow(escrows, EscrowId)
   /\ stored.status = "ready-to-unlock"
   /\ walletConnected) =>
    \A tip \in Heights :
      C6_UnlockCondition(stored, tip) =>
        canUnlock(stored, tip) /\ unlockOffered("form", tip)

\* C27: a poller mounted with enabled = true starts polling by itself: the
\* effect that runs right after mount performs a status check and leaves an
\* interval timer running, which goes on checking while the poller stays
\* enabled and mounted.
C27_EnabledPollerStartsByItself ==
  [][(/\ poller.mounted
      /\ poller.enabled
      /\ ~poller.deps.ran
      /\ poller'.deps.ran) =>
        /\ poller'.checkCount >= 1
        /\ poller'.timers # {}]_vars

\* C28: after any sequence of startPolling, stopPolling, changes of enabled and
\* effect runs, once the effects have run state.isPolling is true exactly when
\* one interval timer is live: never true without a timer, never two timers.
C28_IsPollingIffOneLiveTimer ==
  /\ Cardinality(poller.timers) <= 1
  /\ (poller.mounted /\ ~effectDue(poller)) =>
       (poller.isPolling <=> Cardinality(poller.timers) = 1)

\* C29: a status write that targets an escrow id no longer in the store (the
\* escrow was removed while a poll that read it was in flight) creates no
\* record: every record in the store has the id and the fields it was added
\* with.
C29_StoredRecordsAreWhole ==
  hasEscrow(escrows, EscrowId) =>
    /\ stored.id = EscrowId
    /\ stored.unlockType \in UnlockTypes
    /\ stored.fundingTxid # Undef
    /\ stored.status \in Statuses

\* C30: for every UTXO value and fee (or fee rate) the single output of a
\* built unlock transaction has a value that is positive and not greater than
\* the value of the UTXO it spends; this holds for buildUnlockPSBT and for the
\* detail page's handleUnlock.
C30_OutputPositiveAndWithinUtxo ==
  (built.op = "build" /\ ~built.psbt.failed) =>
    /\ Len(built.psbt.outputs) = 1
    /\ built.psbt.outputs[1] > 0
    /\ built.psbt.outputs[1] <= built.value

====
